---- MODULE Spec2Model ----
(***************************************************************************)
(* Model of src/crew.py: the TrainAPI helper (date rule, station resolver, *)
(* schedule client, result formatter, recommendation engine) and the three *)
(* tools built on it (search_trains, format_trains, validate_inputs).      *)
(*                                                                         *)
(* Python strings whose characters the code inspects (dates, station       *)
(* names, durations) are sequences of one-character strings.  A Python     *)
(* dict is a function whose DOMAIN is the set of keys that are present.    *)
(* Texts the code builds with f-strings are tuples of their parts, and the *)
(* text returned by the formatter is the sequence of its lines.            *)
(***************************************************************************)
EXTENDS Integers, Sequences, FiniteSets, TLC

VARIABLES today, call, pc, ret, requests, network

vars == <<today, call, pc, ret, requests, network>>

-----------------------------------------------------------------------------
(* Characters and strings                                                  *)

Digits == <<"0", "1", "2", "3", "4", "5", "6", "7", "8", "9">>

Lower == <<"a", "b", "c", "d", "e", "f", "g", "h", "i", "j", "k", "l", "m",
           "n", "o", "p", "q", "r", "s", "t", "u", "v", "w", "x", "y", "z">>

Upper == <<"A", "B", "C", "D", "E", "F", "G", "H", "I", "J", "K", "L", "M",
           "N", "O", "P", "Q", "R", "S", "T", "U", "V", "W", "X", "Y", "Z">>

IsDigit(c) == \E i \in DOMAIN Digits : Digits[i] = c

DigitVal(c) == (CHOOSE i \in DOMAIN Digits : Digits[i] = c) - 1

\* str.upper() on one character
UpperChar(c) ==
    IF \E i \in DOMAIN Lower : Lower[i] = c
    THEN Upper[CHOOSE i \in DOMAIN Lower : Lower[i] = c]
    ELSE c

\* str.upper()
str_upper(s) == [i \in DOMAIN s |-> UpperChar(s[i])]

RECURSIVE DigitsToInt(_)
\* value of a non-empty run of decimal digits
DigitsToInt(s) ==
    IF Len(s) = 0 THEN 0
    ELSE 10 * DigitsToInt(SubSeq(s, 1, Len(s) - 1)) + DigitVal(s[Len(s)])

AllDigits(s) == Len(s) > 0 /\ \A i \in DOMAIN s : IsDigit(s[i])

RECURSIVE str_split(_, _)
\* str.split(sep) for a one-character separator: the pieces between separators
str_split(s, sep) ==
    IF \A i \in DOMAIN s : s[i] # sep
    THEN <<s>>
    ELSE LET k == CHOOSE i \in DOMAIN s :
                      s[i] = sep /\ \A j \in 1..(i - 1) : s[j] # sep
         IN  <<SubSeq(s, 1, k - 1)>> \o str_split(SubSeq(s, k + 1, Len(s)), sep)

\* int(text): an optional sign followed by decimal digits, ValueError otherwise
IntParses(s) ==
    \/ AllDigits(s)
    \/ Len(s) > 1 /\ s[1] \in {"-", "+"} /\ AllDigits(Tail(s))

IntValue(s) ==
    IF s[1] = "-" THEN 0 - DigitsToInt(Tail(s))
    ELSE IF s[1] = "+" THEN DigitsToInt(Tail(s))
    ELSE DigitsToInt(s)

-----------------------------------------------------------------------------
(* datetime.strptime(date_str, "%d-%m-%Y")                                 *)

\* %d : 3[0-1] | [1-2]\d | 0[1-9] | [1-9] | " "[1-9]
MatchesDay(s) ==
    \/ Len(s) = 2 /\ s[1] = "3" /\ s[2] \in {"0", "1"}
    \/ Len(s) = 2 /\ s[1] \in {"1", "2"} /\ IsDigit(s[2])
    \/ Len(s) = 2 /\ s[1] \in {"0", " "} /\ IsDigit(s[2]) /\ s[2] # "0"
    \/ Len(s) = 1 /\ IsDigit(s[1]) /\ s[1] # "0"

\* %m : 1[0-2] | 0[1-9] | [1-9]
MatchesMonth(s) ==
    \/ Len(s) = 2 /\ s[1] = "1" /\ s[2] \in {"0", "1", "2"}
    \/ Len(s) = 2 /\ s[1] = "0" /\ IsDigit(s[2]) /\ s[2] # "0"
    \/ Len(s) = 1 /\ IsDigit(s[1]) /\ s[1] # "0"

\* %Y : \d\d\d\d
MatchesYear(s) == Len(s) = 4 /\ AllDigits(s)

IsLeap(y) == (y % 4 = 0) /\ ((y % 100 # 0) \/ (y % 400 = 0))

DaysInMonth(y, m) ==
    IF m = 2 THEN (IF IsLeap(y) THEN 29 ELSE 28)
    ELSE IF m \in {4, 6, 9, 11} THEN 30
    ELSE 31

DayValue(s) == IF s[1] = " " THEN DigitVal(s[2]) ELSE DigitsToInt(s)

\* The whole string must match day "-" month "-" year (none of the three
\* patterns contains "-"), and the fields must name a calendar date of year
\* 1 or later; anything else is a ValueError.
strptime(date_str) ==
    LET parts == str_split(date_str, "-")
    IN  IF /\ Len(parts) = 3
           /\ MatchesDay(parts[1])
           /\ MatchesMonth(parts[2])
           /\ MatchesYear(parts[3])
        THEN LET d == DayValue(parts[1])
                 m == DigitsToInt(parts[2])
                 y == DigitsToInt(parts[3])
             IN  IF y >= 1 /\ d <= DaysInMonth(y, m)
                 THEN [ok |-> TRUE, y |-> y, m |-> m, d |-> d]
                 ELSE [ok |-> FALSE]
        ELSE [ok |-> FALSE]

\* date.__ge__: dates compare as (year, month, day)
DateGE(a, b) ==
    \/ a.y > b.y
    \/ a.y = b.y /\ a.m > b.m
    \/ a.y = b.y /\ a.m = b.m /\ a.d >= b.d

\* a plausible slip: the comparison with today is left out
validate_date_format_only(date_str, now) == strptime(date_str).ok

\* TrainAPI.validate_date; now is datetime.now().date()
validate_date(date_str, now) ==
    LET date_obj == strptime(date_str)
    IN  IF date_obj.ok THEN DateGE(date_obj, now)
        ELSE FALSE

-----------------------------------------------------------------------------
(* Station resolver                                                        *)

\* TrainAPI.station_mappings, as the set of its (name, code) items
station_items ==
    { <<<<"N", "E", "W", " ", "D", "E", "L", "H", "I">>,
        <<"N", "D", "L", "S">>>>,
      <<<<"M", "U", "M", "B", "A", "I", " ", "C", "E", "N", "T", "R", "A", "L">>,
        <<"B", "C", "T">>>>,
      <<<<"C", "H", "E", "N", "N", "A", "I", " ", "C", "E", "N", "T", "R", "A", "L">>,
        <<"M", "A", "S">>>>,
      <<<<"K", "O", "L", "K", "A", "T", "A">>,
        <<"K", "O", "A", "A">>>>,
      <<<<"B", "A", "N", "G", "A", "L", "O", "R", "E">>,
        <<"S", "B", "C">>>>,
      <<<<"H", "Y", "D", "E", "R", "A", "B", "A", "D">>,
        <<"S", "C">>>>,
      <<<<"P", "U", "N", "E">>,
        <<"P", "U", "N", "E">>>>,
      <<<<"A", "H", "M", "E", "D", "A", "B", "A", "D">>,
        <<"A", "D", "I">>>> }

station_keys == { item[1] : item \in station_items }

\* TrainAPI.station_mappings[key]
station_mappings(key) == (CHOOSE item \in station_items : item[1] = key)[2]

\* what a resolver that normalises its result would do: the upper-cased input
\* is returned on a lookup miss
get_station_code_upper(station_input) ==
    LET station_upper == str_upper(station_input)
    IN  IF station_upper \in station_keys
        THEN station_mappings(station_upper)
        ELSE station_upper

\* TrainAPI.get_station_code: dict.get(station_upper, station_input)
get_station_code(station_input) ==
    LET station_upper == str_upper(station_input)
    IN  IF station_upper \in station_keys
        THEN station_mappings(station_upper)
        ELSE station_input

-----------------------------------------------------------------------------
(* Input validator                                                         *)

DepartureIssue == "Departure station code too short"
DepartureSuggestion == "Use 3-4 letter station codes (e.g., NDLS for New Delhi)"
DestinationIssue == "Destination station code too short"
DestinationSuggestion == "Use 3-4 letter station codes (e.g., BCT for Mumbai Central)"
DateIssue == "Invalid date or date is in the past"
DateSuggestion == "Use DD-MM-YYYY format and ensure date is today or future"

\* a plausible slip: the checks are chained with elif, so that only the first
\* failing rule is reported
validate_inputs_first_only(from_station, to_station, date, now) ==
    LET issues ==
            IF Len(from_station) < 2 THEN <<DepartureIssue>>
            ELSE IF Len(to_station) < 2 THEN <<DestinationIssue>>
            ELSE IF ~validate_date(date, now) THEN <<DateIssue>>
            ELSE <<>>
        suggestions ==
            IF Len(from_station) < 2 THEN <<DepartureSuggestion>>
            ELSE IF Len(to_station) < 2 THEN <<DestinationSuggestion>>
            ELSE IF ~validate_date(date, now) THEN <<DateSuggestion>>
            ELSE <<>>
    IN  [valid |-> Len(issues) = 0, issues |-> issues, suggestions |-> suggestions]

\* validate_inputs: three independent ifs, each appending to both lists
validate_inputs(from_station, to_station, date, now) ==
    LET issues1 == IF Len(from_station) < 2 THEN <<DepartureIssue>> ELSE <<>>
        suggestions1 == IF Len(from_station) < 2 THEN <<DepartureSuggestion>> ELSE <<>>
        issues2 == IF Len(to_station) < 2
                   THEN Append(issues1, DestinationIssue) ELSE issues1
        suggestions2 == IF Len(to_station) < 2
                        THEN Append(suggestions1, DestinationSuggestion) ELSE suggestions1
        issues == IF ~validate_date(date, now)
                  THEN Append(issues2, DateIssue) ELSE issues2
        suggestions == IF ~validate_date(date, now)
                       THEN Append(suggestions2, DateSuggestion) ELSE suggestions2
    IN  [valid |-> Len(issues) = 0, issues |-> issues, suggestions |-> suggestions]

-----------------------------------------------------------------------------
(* Schedule client                                                         *)

\* str(res.status) for the statuses the model's server answers with
StatusText(status) ==
    CASE status = 200 -> "200"
      [] status = 204 -> "204"
      [] status = 301 -> "301"
      [] status = 404 -> "404"
      [] status = 429 -> "429"
      [] status = 503 -> "503"

\* the error dict the client returns: {"error": message, "data": []}
ErrorResult(message) == [error |-> message, data |-> <<>>]

\* the request line built from the resolved codes and the date
Endpoint(from_code, to_code, date) ==
    [method |-> "GET", path |-> "/api/v3/trainBetweenStations",
     fromStationCode |-> from_code, toStationCode |-> to_code,
     dateOfJourney |-> date]

\* What happens from conn.request on, given what the network does (net):
\*   net.kind = "fault"     request/getresponse raises with message net.msg
\*   net.kind = "response"  a response with net.status arrives; its body
\*       net.body.kind = "unreadable"  res.read()/decode raises net.body.msg
\*       net.body.kind = "garbled"     json.loads raises net.body.msg
\*       net.body.kind = "json"        json.loads returns net.body.value
\* Every exception is caught by the enclosing except Exception.
AfterRequest(net) ==
    IF net.kind = "fault"
    THEN ErrorResult(<<"Connection error: ", net.msg>>)
    ELSE IF net.status # 200
    THEN ErrorResult(<<"API Error: ", StatusText(net.status)>>)
    ELSE IF net.body.kind \in {"unreadable", "garbled"}
    THEN ErrorResult(<<"Connection error: ", net.body.msg>>)
    ELSE net.body.value

\* a plausible slip: the request is sent before the inputs are checked
get_trains_between_stations_late_check(from_code, to_code, date, now, net) ==
    LET sent == <<Endpoint(get_station_code(from_code), get_station_code(to_code), date)>>
    IN  IF Len(from_code) = 0 \/ Len(to_code) = 0 \/ Len(date) = 0
        THEN [value |-> ErrorResult(<<"Missing required parameters">>), requests |-> sent]
        ELSE IF ~validate_date(date, now)
        THEN [value |-> ErrorResult(<<"Invalid date format or date is in the past">>),
              requests |-> sent]
        ELSE [value |-> AfterRequest(net), requests |-> sent]

\* a plausible slip: a transport fault is answered by one more attempt, whose
\* failure is reported with a fixed text
get_trains_between_stations_retry(from_code, to_code, date, now, net) ==
    LET sent == <<Endpoint(get_station_code(from_code), get_station_code(to_code), date)>>
    IN  IF Len(from_code) = 0 \/ Len(to_code) = 0 \/ Len(date) = 0
        THEN [value |-> ErrorResult(<<"Missing required parameters">>), requests |-> <<>>]
        ELSE IF ~validate_date(date, now)
        THEN [value |-> ErrorResult(<<"Invalid date format or date is in the past">>),
              requests |-> <<>>]
        ELSE IF net.kind = "fault"
        THEN [value |-> ErrorResult(<<"Connection error: ", net.msg>>),
              requests |-> sent \o sent]
        ELSE [value |-> AfterRequest(net), requests |-> sent]

\* TrainAPI.get_trains_between_stations: the value returned and the requests
\* handed to conn.request during the call
get_trains_between_stations(from_code, to_code, date, now, net) ==
    IF Len(from_code) = 0 \/ Len(to_code) = 0 \/ Len(date) = 0
    THEN [value |-> ErrorResult(<<"Missing required parameters">>), requests |-> <<>>]
    ELSE IF ~validate_date(date, now)
    THEN [value |-> ErrorResult(<<"Invalid date format or date is in the past">>),
          requests |-> <<>>]
    ELSE [value |-> AfterRequest(net),
          requests |-> <<Endpoint(get_station_code(from_code),
                                  get_station_code(to_code), date)>>]

-----------------------------------------------------------------------------
(* Result formatter                                                        *)

\* dict.get(key, default)
Get(dict, key, default) == IF key \in DOMAIN dict THEN dict[key] ELSE default

\* truth value of a text or a list: non-empty
Truthy(seq) == Len(seq) > 0

\* the text 'N/A' where a value that the code inspects as characters is shown
NA == <<"N", "/", "A">>

RECURSIVE IntToStr(_)
\* str(n) for n >= 0
IntToStr(n) ==
    IF n < 10 THEN <<Digits[n + 1]>>
    ELSE IntToStr(n \div 10) \o <<Digits[(n % 10) + 1]>>

\* a plausible slip: the halt line is shown whenever the key is present, also
\* for a halt count of 0
HaltShown_when_present(train) == "halt_stn" \in DOMAIN train

\* halt_count = train.get('halt_stn', 0); if halt_count:
HaltShown(train) == Get(train, "halt_stn", 0) # 0

\* the lines of one train block, numbered i
Block(i, train) ==
    <<[kind |-> "title", seq |-> i,
       number |-> Get(train, "train_number", "N/A"),
       name |-> Get(train, "train_name", "N/A")],
      [kind |-> "from", name |-> Get(train, "from_station_name", "N/A"),
       code |-> Get(train, "from", "N/A"), time |-> Get(train, "from_std", "N/A")],
      [kind |-> "to", name |-> Get(train, "to_station_name", "N/A"),
       code |-> Get(train, "to", "N/A"), time |-> Get(train, "to_sta", "N/A")],
      [kind |-> "duration", text |-> Get(train, "duration", NA)],
      [kind |-> "distance",
       text |-> IF "distance" \in DOMAIN train THEN IntToStr(train["distance"]) ELSE NA]>>
    \o (IF Truthy(Get(train, "run_days", <<>>))
        THEN <<[kind |-> "run_days", days |-> train["run_days"]]>> ELSE <<>>)
    \o (IF Truthy(Get(train, "class_type", <<>>))
        THEN <<[kind |-> "classes", classes |-> train["class_type"]]>> ELSE <<>>)
    \o (IF HaltShown(train)
        THEN <<[kind |-> "halts", count |-> train["halt_stn"]]>> ELSE <<>>)
    \o <<[kind |-> "blank"]>>

RECURSIVE Blocks(_, _)
\* for i, train in enumerate(trains[:5], 1), from position i on
Blocks(trains, i) ==
    IF i > Len(trains) \/ i > 5 THEN <<>>
    ELSE Block(i, trains[i]) \o Blocks(trains, i + 1)

\* a plausible slip: >= where the code has >, so that exactly five trains get
\* a trailing line
HasMore_at_five(trains) == Len(trains) >= 5

\* if len(trains) > 5:
HasMore(trains) == Len(trains) > 5

\* a plausible slip: the data check comes before the error check
format_train_info_data_first(train_data) ==
    IF ~Truthy(Get(train_data, "data", <<>>))
    THEN <<[kind |-> "none_found"]>>
    ELSE IF Truthy(Get(train_data, "error", <<>>))
    THEN <<[kind |-> "error", text |-> train_data["error"]]>>
    ELSE LET trains == Get(train_data, "data", <<>>)
         IN  IF ~Truthy(trains)
             THEN <<[kind |-> "none_available"]>>
             ELSE <<[kind |-> "header", count |-> Len(trains)], [kind |-> "blank"]>>
                  \o Blocks(trains, 1)
                  \o (IF HasMore(trains)
                      THEN <<[kind |-> "more", count |-> Len(trains) - 5]>>
                      ELSE <<>>)

\* TrainAPI.format_train_info: the lines of the returned text
format_train_info(train_data) ==
    IF Truthy(Get(train_data, "error", <<>>))
    THEN <<[kind |-> "error", text |-> train_data["error"]]>>
    ELSE IF ~Truthy(Get(train_data, "data", <<>>))
    THEN <<[kind |-> "none_found"]>>
    ELSE LET trains == Get(train_data, "data", <<>>)
         IN  IF ~Truthy(trains)
             THEN <<[kind |-> "none_available"]>>
             ELSE <<[kind |-> "header", count |-> Len(trains)], [kind |-> "blank"]>>
                  \o Blocks(trains, 1)
                  \o (IF HasMore(trains)
                      THEN <<[kind |-> "more", count |-> Len(trains) - 5]>>
                      ELSE <<>>)

-----------------------------------------------------------------------------
(* Recommendation engine                                                   *)

\* TrainAPI._parse_duration: minutes of "H:M"; 999 when there is no ":" or
\* when split/int raise (a number of pieces other than two, a piece that is
\* no integer)
_parse_duration(duration_str) ==
    IF \E i \in DOMAIN duration_str : duration_str[i] = ":"
    THEN LET parts == str_split(duration_str, ":")
         IN  IF Len(parts) = 2 /\ IntParses(parts[1]) /\ IntParses(parts[2])
             THEN IntValue(parts[1]) * 60 + IntValue(parts[2])
             ELSE 999
    ELSE 999

RECURSIVE LastMinFrom(_, _, _)
\* a plausible slip: <= where min compares with <, so that the last of several
\* smallest keys wins
LastMinFrom(keys, i, best) ==
    IF i > Len(keys) THEN best
    ELSE LastMinFrom(keys, i + 1, IF keys[i] <= keys[best] THEN i ELSE best)

RECURSIVE MinFrom(_, _, _)
\* min(iterable, key=...): the loop from position i on; best is the position
\* kept so far, replaced only by a strictly smaller key
MinFrom(keys, i, best) ==
    IF i > Len(keys) THEN best
    ELSE MinFrom(keys, i + 1, IF keys[i] < keys[best] THEN i ELSE best)

RECURSIVE MaxFrom(_, _, _)
\* max(iterable, key=...): replaced only by a strictly larger key
MaxFrom(keys, i, best) ==
    IF i > Len(keys) THEN best
    ELSE MaxFrom(keys, i + 1, IF keys[i] > keys[best] THEN i ELSE best)

\* a min that keeps the last of several smallest keys
py_min_last(keys) == LastMinFrom(keys, 2, 1)

\* position of the item min() returns, for a non-empty list of keys
py_min(keys) == MinFrom(keys, 2, 1)

\* position of the item max() returns, for a non-empty list of keys
py_max(keys) == MaxFrom(keys, 2, 1)

\* the three sort keys of get_quick_recommendations
DurationKey(t) == _parse_duration(Get(t, "duration", <<"9", "9", ":", "9", "9">>))
ClassesKey(t) == Len(Get(t, "class_type", <<>>))
HaltsKey(t) == Get(t, "halt_stn", 999)

\* TrainAPI.get_quick_recommendations: the lines of the returned text
get_quick_recommendations(trains) ==
    IF ~Truthy(trains) THEN <<>>
    ELSE LET fastest == trains[py_min([i \in DOMAIN trains |-> DurationKey(trains[i])])]
             most_classes == trains[py_max([i \in DOMAIN trains |-> ClassesKey(trains[i])])]
             least_halts == trains[py_min([i \in DOMAIN trains |-> HaltsKey(trains[i])])]
         IN  <<[kind |-> "blank"], [kind |-> "recommendations"], [kind |-> "blank"],
               [kind |-> "fastest", name |-> Get(fastest, "train_name", "N/A"),
                duration |-> Get(fastest, "duration", NA)],
               [kind |-> "most_classes", name |-> Get(most_classes, "train_name", "N/A"),
                classes |-> Len(Get(most_classes, "class_type", <<>>))],
               [kind |-> "least_halts", name |-> Get(least_halts, "train_name", "N/A"),
                stops |-> Get(least_halts, "halt_stn", 0)]>>

\* format_trains: the formatted text, followed by the recommendations when the
\* data list is present and non-empty
format_trains(train_data) ==
    format_train_info(train_data)
    \o (IF Truthy(Get(train_data, "data", <<>>))
        THEN get_quick_recommendations(train_data["data"])
        ELSE <<>>)

-----------------------------------------------------------------------------
(* Inputs                                                                  *)

\* longest list of trains drawn from PlainTrains
MaxTrains == 7
\* longest list of trains drawn from the pools that differ in one sort key
MaxTied == 3
\* longest list of trains drawn from DetailedTrains
MaxDetailed == 1

\* values of datetime.now().date()
Todays == { [y |-> 2030, m |-> 3, d |-> 1], [y |-> 2028, m |-> 2, d |-> 29] }

DayTexts == { <<"1">>,
            <<"0", "1">>,
            <<" ", "1">>,
            <<"2", "9">>,
            <<"3", "1">>,
            <<"0", "0">> }
MonthTexts == { <<"2">>,
              <<"0", "2">>,
              <<"0", "3">>,
              <<"1", "3">> }
YearTexts == { <<"2", "0", "2", "8">>,
             <<"2", "0", "3", "0">>,
             <<"0", "0", "0", "0">>,
             <<"2", "0", "3">> }

DateInputs ==
    { d \o <<"-">> \o m \o <<"-">> \o y :
          d \in DayTexts, m \in MonthTexts, y \in YearTexts }
    \cup { <<>>,
           <<"2", "0", "3", "0", "-", "0", "3", "-", "0", "1">>,
           <<"0", "1", "/", "0", "3", "/", "2", "0", "3", "0">>,
           <<"0", "1", "-", "0", "3", "-", "2", "0", "3", "0", "x">>,
           <<"0", "1", "-", "0", "3", "-", "2", "0", "3", "0", "-">>,
           <<"0", "1", "-", "0", "3">>,
           <<"0", "1", "0", "3", "-", "2", "0", "3", "0">>,
           <<"t", "o", "m", "o", "r", "r", "o", "w">>,
           <<"0", "1", "-", "0", "3", "-", "2", "0", "3", "0", " ">>,
           <<"+", "1", "-", "0", "3", "-", "2", "0", "3", "0">> }

StationInputs ==
    { <<>>,
      <<"N">>,
      <<"S", "C">>,
      <<"B", "C", "T">>,
      <<"N", "D", "L", "S">>,
      <<"n", "d", "l", "s">>,
      <<"x", "y", "z">>,
      <<"N", "E", "W", " ", "D", "E", "L", "H", "I">>,
      <<"n", "e", "w", " ", "d", "e", "l", "h", "i">>,
      <<"N", "e", "w", " ", "D", "e", "l", "h", "i">>,
      <<"P", "u", "n", "e">>,
      <<"p", "u", "n", "e">>,
      <<"N", "E", "W", "D", "E", "L", "H", "I">>,
      <<"K", "o", "l", "k", "a", "t", "a">>,
      <<"K", "2">> }

\* station texts of length 0, 1, 2 and more
ValidatorStations == { <<>>,
                       <<"N">>,
                       <<"S", "C">>,
                       <<"n", "e", "w", " ", "d", "e", "l", "h", "i">> }

ClientOrigins == { <<>>,
                   <<"n", "e", "w", " ", "d", "e", "l", "h", "i">>,
                   <<"x", "y", "z">>,
                   <<"B", "C", "T">> }
ClientDestinations == { <<>>,
                        <<"B", "C", "T">>,
                        <<"p", "u", "n", "e">> }

\* names that tell the trains of a list apart: the train at position i of an
\* input list is called TrainNames[i]
TrainNames == <<"T1", "T2", "T3", "T4", "T5", "T6", "T7", "T8", "T9", "T10">>

WithName(train, i) ==
    [k \in DOMAIN train \cup {"train_name"} |->
        IF k = "train_name" THEN TrainNames[i] ELSE train[k]]

\* the lists of 1..n trains drawn from pool, named by position
Lists(pool, n) ==
    UNION { { [i \in 1..len |-> WithName(l[i], i)] : l \in [1..len -> pool] } :
            len \in 1..n }

\* a dict without keys
NoKeys == [k \in {} |-> k]

\* a key that is absent or carries one of values
Optional(key, values) == {NoKeys} \cup { key :> v : v \in values }

Endpoints ==
    [from |-> "NDLS", from_station_name |-> "NEW DELHI", from_std |-> "16:55",
     to |-> "BCT", to_station_name |-> "MUMBAI CENTRAL", to_sta |-> "08:35"]

\* two trains: one with every field, one with the train number only
PlainTrains ==
    { Endpoints @@
      [train_number |-> "12952", duration |-> <<"1", "5", ":", "4", "0">>,
       distance |-> 1384, run_days |-> <<"Mon", "Thu">>,
       class_type |-> <<"SL", "3A">>, halt_stn |-> 6],
      [train_number |-> "12910"] }

DurationTexts == { <<"0", "2", ":", "3", "0">>,
                 <<"0", "1", ":", "4", "5">>,
                 <<"u", "n", "k", "n", "o", "w", "n">>,
                 <<"1", "7", ":", "0", "0">>,
                 <<"1", "6", ":", "3", "9">>,
                 <<"1", ":", "2", ":", "3">> }

\* trains that differ in the duration only (present or absent)
DurationTrains ==
    { [train_number |-> "12952"] @@ o : o \in Optional("duration", DurationTexts) }

\* trains that differ in the travel classes only
ClassTrains ==
    { [train_number |-> "12952", duration |-> <<"0", "2", ":", "3", "0">>] @@ o :
          o \in Optional("class_type", {<<>>, <<"SL">>, <<"2A">>, <<"SL", "3A">>}) }

\* trains that differ in the halt count only
HaltTrains ==
    { [train_number |-> "12952", duration |-> <<"0", "2", ":", "3", "0">>] @@ o :
          o \in Optional("halt_stn", {0, 4, 12, 1000}) }

\* trains that differ in the four fields whose lines are optional
DetailedTrains ==
    { [train_number |-> "12952", duration |-> <<"0", "2", ":", "3", "0">>]
      @@ o1 @@ o2 @@ o3 @@ o4 :
          o1 \in Optional("distance", {0, 1384}),
          o2 \in Optional("run_days", {<<>>, <<"Mon", "Thu">>}),
          o3 \in Optional("class_type", {<<>>, <<"SL", "3A">>}),
          o4 \in Optional("halt_stn", {0, 6}) }

TrainLists ==
    Lists(PlainTrains, MaxTrains) \cup Lists(DetailedTrains, MaxDetailed)

\* the lists handed to the recommendation engine
RankedLists ==
    Lists(PlainTrains, MaxTrains)
    \cup Lists(DurationTrains, MaxTied)
    \cup Lists(ClassTrains, MaxTied)
    \cup Lists(HaltTrains, MaxTied)

\* error texts a response dict may carry
ErrorTexts ==
    { <<"API Error: ", "503">>, <<"Connection error: ", "timed out">>,
      <<"Missing required parameters">> }

\* dicts without trains (empty results, error results, a dict with neither
\* key) and dicts that have both an error and trains
OtherData ==
    { [data |-> <<>>], [message |-> "You are not subscribed to this API."] }
    \cup { ErrorResult(e) : e \in ErrorTexts }
    \cup { [error |-> e] : e \in ErrorTexts }
    \cup { [error |-> <<>>, data |-> l] : l \in Lists(PlainTrains, 1) }
    \cup { [error |-> e, data |-> l] : e \in ErrorTexts, l \in Lists(PlainTrains, 1) }

\* the dicts handed to the formatter
TrainData ==
    { [data |-> l] : l \in TrainLists } \cup OtherData

\* the dicts handed to the format_trains tool
ToolData ==
    { [data |-> l] : l \in Lists(PlainTrains, MaxTrains) } \cup OtherData

\* what the network may do with a request
Statuses == {200, 204, 301, 404, 429, 503}

Bodies ==
    { [kind |-> "unreadable", msg |-> "'utf-8' codec can't decode byte 0xff"],
      [kind |-> "garbled", msg |-> "Expecting value: line 1 column 1 (char 0)"],
      [kind |-> "json", value |-> [data |-> <<>>]],
      [kind |-> "json", value |-> [message |-> "You are not subscribed to this API."]] }
    \cup { [kind |-> "json", value |-> [data |-> l]] : l \in Lists(PlainTrains, 1) }

NetOutcomes ==
    { [kind |-> "fault", msg |-> m] :
          m \in {"timed out", "[Errno -2] Name or service not known"} }
    \cup { [kind |-> "response", status |-> st, body |-> b] :
               st \in Statuses, b \in Bodies }

Idle == [kind |-> "idle"]

\* the invocations of the tools and helpers
Calls ==
    { [op |-> "validate_inputs", from_station |-> f, to_station |-> t, date |-> d] :
          f \in ValidatorStations, t \in ValidatorStations, d \in DateInputs }
    \cup { [op |-> "get_station_code", station_input |-> st] : st \in StationInputs }
    \cup { [op |-> "search_trains", from_code |-> f, to_code |-> t, date |-> d] :
               f \in ClientOrigins, t \in ClientDestinations, d \in DateInputs }
    \cup { [op |-> "format_train_info", train_data |-> td] : td \in TrainData }
    \cup { [op |-> "get_quick_recommendations", trains |-> l] :
               l \in RankedLists \cup {<<>>} }
    \cup { [op |-> "format_trains", train_data |-> td] : td \in ToolData }

-----------------------------------------------------------------------------
(* The tools as a state machine: an invocation is drawn, then served       *)

Init ==
    /\ today \in Todays
    /\ call \in Calls
    /\ pc = "ready"
    /\ ret = <<>>
    /\ requests = <<>>
    /\ network = Idle

\* validate_inputs tool
ValidateInputs ==
    /\ pc = "ready"
    /\ call.op = "validate_inputs"
    /\ ret' = validate_inputs(call.from_station, call.to_station, call.date, today)
    /\ pc' = "done"
    /\ UNCHANGED <<today, call, requests, network>>

\* TrainAPI.get_station_code
GetStationCode ==
    /\ pc = "ready"
    /\ call.op = "get_station_code"
    /\ ret' = get_station_code(call.station_input)
    /\ pc' = "done"
    /\ UNCHANGED <<today, call, requests, network>>

\* search_trains tool; network records what the network did with the request,
\* if one was made
SearchTrains ==
    /\ pc = "ready"
    /\ call.op = "search_trains"
    /\ \E net \in NetOutcomes :
          LET r == get_trains_between_stations(call.from_code, call.to_code,
                                               call.date, today, net)
          IN  /\ ret' = r.value
              /\ requests' = r.requests
              /\ network' = IF Len(r.requests) > 0 THEN net ELSE Idle
    /\ pc' = "done"
    /\ UNCHANGED <<today, call>>

\* TrainAPI.format_train_info
FormatTrainInfo ==
    /\ pc = "ready"
    /\ call.op = "format_train_info"
    /\ ret' = format_train_info(call.train_data)
    /\ pc' = "done"
    /\ UNCHANGED <<today, call, requests, network>>

\* TrainAPI.get_quick_recommendations
GetQuickRecommendations ==
    /\ pc = "ready"
    /\ call.op = "get_quick_recommendations"
    /\ ret' = get_quick_recommendations(call.trains)
    /\ pc' = "done"
    /\ UNCHANGED <<today, call, requests, network>>

\* format_trains tool
FormatTrains ==
    /\ pc = "ready"
    /\ call.op = "format_trains"
    /\ ret' = format_trains(call.train_data)
    /\ pc' = "done"
    /\ UNCHANGED <<today, call, requests, network>>

Next ==
    \/ ValidateInputs
    \/ GetStationCode
    \/ SearchTrains
    \/ FormatTrainInfo
    \/ GetQuickRecommendations
    \/ FormatTrains

Spec == Init /\ [][Next]_vars

-----------------------------------------------------------------------------
(* Properties                                                              *)

Done(op) == pc = "done" /\ call.op = op

\* a date as one number, ordered as the calendar is
DateOrdinal(date) == date.y * 10000 + date.m * 100 + date.d

\* the date rule, stated from the calendar: the text names no date, or names
\* one that lies before now
FailsDateRule(date_str, now) ==
    LET parsed == strptime(date_str)
    IN  ~parsed.ok \/ DateOrdinal(parsed) < DateOrdinal(now)

\* an error message with an empty record list
IsErrorVariant(value) ==
    /\ DOMAIN value = {"error", "data"}
    /\ Len(value["error"]) > 0
    /\ value["data"] = <<>>

\* part is one of the pieces that text was put together from
Embeds(text, part) == \E i \in DOMAIN text : text[i] = part

InSeq(x, seq) == \E i \in DOMAIN seq : seq[i] = x

\* C1: get_trains_between_stations returns the error variant and hands
\* nothing to conn.request whenever the origin, the destination or the date
\* is empty or the date fails the date rule; a request is made only when all
\* of these checks have passed.
C1_ShortCircuitBeforeRequest ==
    Done("search_trains") =>
        LET bad == \/ Len(call.from_code) = 0
                   \/ Len(call.to_code) = 0
                   \/ Len(call.date) = 0
                   \/ FailsDateRule(call.date, today)
        IN  /\ bad => (requests = <<>> /\ network = Idle /\ IsErrorVariant(ret))
            /\ requests # <<>> => ~bad

\* the spec's example: an empty origin with a fine destination and date
C1_Witness ==
    /\ Done("search_trains")
    /\ call.from_code = <<>>
    /\ call.to_code = <<"B", "C", "T">>
    /\ ~FailsDateRule(call.date, today)
    /\ requests = <<>>
    /\ IsErrorVariant(ret)

\* C2: a call makes at most one request and always returns a dict: after a
\* transport fault, a status outside 200..299 or a body that cannot be read
\* or parsed, it returns the error variant, whose message embeds the fault's
\* text or the status code; otherwise it returns the decoded body.
C2_OneAttemptAlwaysReturns ==
    Done("search_trains") =>
        /\ Len(requests) <= 1
        /\ \/ IsErrorVariant(ret)
           \/ /\ network.kind = "response"
              /\ network.body.kind = "json"
              /\ ret = network.body.value
        /\ network.kind = "fault" =>
               IsErrorVariant(ret) /\ Embeds(ret["error"], network.msg)
        /\ (network.kind = "response" /\ network.status \notin 200..299) =>
               IsErrorVariant(ret) /\ Embeds(ret["error"], StatusText(network.status))
        /\ (/\ network.kind = "response"
            /\ network.status = 200
            /\ network.body.kind \in {"unreadable", "garbled"}) =>
               IsErrorVariant(ret) /\ Embeds(ret["error"], network.body.msg)

C2_Witness ==
    /\ Done("search_trains")
    /\ network.kind = "fault"
    /\ Len(requests) = 1
    /\ ret = ErrorResult(<<"Connection error: ", "timed out">>)

\* C3: validate_inputs applies its three rules independently: the issues are
\* exactly the departure issue (origin shorter than 2), the destination issue
\* (destination shorter than 2) and the date issue (date failing the date
\* rule), in this order, each with its suggestion at the same position, and
\* valid is true if and only if there is no issue.
C3_IndependentRules ==
    Done("validate_inputs") =>
        LET from_short == Len(call.from_station) < 2
            to_short == Len(call.to_station) < 2
            date_bad == FailsDateRule(call.date, today)
        IN  /\ ret.issues =
                   (IF from_short THEN <<DepartureIssue>> ELSE <<>>)
                   \o (IF to_short THEN <<DestinationIssue>> ELSE <<>>)
                   \o (IF date_bad THEN <<DateIssue>> ELSE <<>>)
            /\ ret.suggestions =
                   (IF from_short THEN <<DepartureSuggestion>> ELSE <<>>)
                   \o (IF to_short THEN <<DestinationSuggestion>> ELSE <<>>)
                   \o (IF date_bad THEN <<DateSuggestion>> ELSE <<>>)
            /\ Len(ret.issues) = Len(ret.suggestions)
            /\ ret.valid <=> (Len(ret.issues) = 0)

\* all three rules fail at once and all three issues are reported
C3_Witness ==
    /\ Done("validate_inputs")
    /\ Len(call.from_station) < 2
    /\ Len(call.to_station) < 2
    /\ FailsDateRule(call.date, today)
    /\ ret.issues = <<DepartureIssue, DestinationIssue, DateIssue>>
    /\ ~ret.valid

\* the text has the shape DD-MM-YYYY: ten characters, digits but for the two
\* dashes
IsDDMMYYYY(date_str) ==
    /\ Len(date_str) = 10
    /\ \A i \in {1, 2, 4, 5, 7, 8, 9, 10} : IsDigit(date_str[i])
    /\ date_str[3] = "-" /\ date_str[6] = "-"

\* C4: validate_inputs reports the date issue exactly when the date does not
\* parse or parses to a day before today: every date before today is
\* reported whatever the stations are, a DD-MM-YYYY date of today or later is
\* not, and a malformed text is reported (a result is returned, no exception).
C4_DateRule ==
    Done("validate_inputs") =>
        LET parsed == strptime(call.date)
            reported == InSeq(DateIssue, ret.issues)
        IN  /\ (parsed.ok /\ DateOrdinal(parsed) < DateOrdinal(today)) => reported
            /\ (/\ IsDDMMYYYY(call.date)
                /\ parsed.ok
                /\ DateOrdinal(parsed) >= DateOrdinal(today)) => ~reported
            /\ ~parsed.ok => reported
            /\ reported <=> FailsDateRule(call.date, today)

\* a date before today is reported although both stations are fine
C4_Witness ==
    /\ Done("validate_inputs")
    /\ strptime(call.date).ok
    /\ DateOrdinal(strptime(call.date)) < DateOrdinal(today)
    /\ Len(call.from_station) >= 2
    /\ Len(call.to_station) >= 2
    /\ ret.issues = <<DateIssue>>

\* C5 as stated: get_station_code returns the mapped code when the upper-cased
\* input is a key of the station table and the upper-cased input otherwise.
C5_ResolverUpperCases ==
    Done("get_station_code") =>
        LET station_upper == str_upper(call.station_input)
        IN  ret = IF station_upper \in station_keys
                  THEN station_mappings(station_upper)
                  ELSE station_upper

\* C5, amended: get_station_code returns the mapped code when the upper-cased
\* input is a key of the station table ("NEW DELHI" and "new delhi" give
\* "NDLS") and the input itself, in the case it came in, otherwise ("xyz"
\* gives "xyz", "ndls" gives "ndls"); unless the input is a mapped name the
\* result is the input, so that it never differs from it but in being mapped.
C5_ResolverFallsThroughUnchanged ==
    Done("get_station_code") =>
        LET station_upper == str_upper(call.station_input)
        IN  /\ station_upper \in station_keys => ret = station_mappings(station_upper)
            /\ station_upper \notin station_keys =>
                   ret = call.station_input /\ str_upper(ret) = station_upper
            /\ str_upper(call.station_input) = <<"N", "E", "W", " ", "D", "E", "L", "H", "I">>
                   => ret = <<"N", "D", "L", "S">>
            /\ call.station_input = <<"x", "y", "z">> => ret = <<"x", "y", "z">>
            /\ call.station_input = <<"n", "d", "l", "s">> => ret = <<"n", "d", "l", "s">>

\* a lower-case code that is no mapped name comes back as it went in
C5_Witness ==
    /\ Done("get_station_code")
    /\ call.station_input = <<"x", "y", "z">>
    /\ str_upper(call.station_input) \notin station_keys
    /\ ret = <<"x", "y", "z">>

\* the response is the success variant with at least one record
IsSuccessWithTrains(train_data) ==
    /\ ~Truthy(Get(train_data, "error", <<>>))
    /\ Truthy(Get(train_data, "data", <<>>))

IsTitle(line) == line.kind = "title"

IsMore(line) == line.kind = "more"

Min(a, b) == IF a < b THEN a ELSE b

\* C6: for a success response with n >= 1 records the text starts with a
\* header stating n and has exactly min(n, 5) train blocks, block i being
\* numbered i and showing the i-th record received; a line stating n - 5 more
\* trains ends the text if and only if n > 5, and appears nowhere else.
C6_FirstFiveInOrder ==
    (Done("format_train_info") /\ IsSuccessWithTrains(call.train_data)) =>
        LET trains == call.train_data["data"]
            n == Len(trains)
            titles == SelectSeq(ret, IsTitle)
        IN  /\ ret[1] = [kind |-> "header", count |-> n]
            /\ Len(titles) = Min(n, 5)
            /\ \A i \in DOMAIN titles :
                   /\ titles[i].seq = i
                   /\ titles[i].name = trains[i]["train_name"]
                   /\ titles[i].number = trains[i]["train_number"]
            /\ Len(SelectSeq(ret, IsMore)) = IF n > 5 THEN 1 ELSE 0
            /\ n > 5 => ret[Len(ret)] = [kind |-> "more", count |-> n - 5]

\* seven records: five blocks and "2 more trains available."
C6_Witness ==
    /\ Done("format_train_info")
    /\ IsSuccessWithTrains(call.train_data)
    /\ Len(call.train_data["data"]) = 7
    /\ Len(SelectSeq(ret, IsTitle)) = 5
    /\ ret[Len(ret)] = [kind |-> "more", count |-> 2]

\* C7: for an error variant (a message with an empty record list) the
\* formatter returns one line, which carries the message, and no train block;
\* for a success variant with an empty record list it returns one "no
\* trains" line; format_trains returns the same single line in both cases.
C7_SingleLine ==
    ((Done("format_train_info") \/ Done("format_trains"))
        /\ "data" \in DOMAIN call.train_data
        /\ call.train_data["data"] = <<>>) =>
        /\ IsErrorVariant(call.train_data) =>
               ret = <<[kind |-> "error", text |-> call.train_data["error"]]>>
        /\ ~Truthy(Get(call.train_data, "error", <<>>)) =>
               /\ Len(ret) = 1
               /\ ret[1].kind \in {"none_found", "none_available"}

\* the spec's example: "API Error: 503" through the format_trains tool
C7_Witness ==
    /\ Done("format_trains")
    /\ call.train_data = ErrorResult(<<"API Error: ", "503">>)
    /\ ret = <<[kind |-> "error", text |-> <<"API Error: ", "503">>]>>

\* the duration is present and is two integers around one ":"
DurationParses(train) ==
    /\ "duration" \in DOMAIN train
    /\ LET parts == str_split(train["duration"], ":")
       IN  Len(parts) = 2 /\ IntParses(parts[1]) /\ IntParses(parts[2])

Minutes(train) ==
    LET parts == str_split(train["duration"], ":")
    IN  IntValue(parts[1]) * 60 + IntValue(parts[2])

\* position in the input list of the train that the line names
Chosen(line) == CHOOSE i \in DOMAIN TrainNames : TrainNames[i] = line.name

\* C8: for a non-empty list the train reported as fastest has the smallest
\* parsed duration of the whole list, and a train whose duration is missing
\* or does not parse is reported only if no duration of the list parses; for
\* the empty list the result is the empty text.
C8_FastestIsMinimumParsed ==
    Done("get_quick_recommendations") =>
        IF call.trains = <<>> THEN ret = <<>>
        ELSE LET trains == call.trains
                 fastest == trains[Chosen(ret[4])]
             IN  /\ ret[4].kind = "fastest"
                 /\ (\E i \in DOMAIN trains : DurationParses(trains[i])) =>
                        /\ DurationParses(fastest)
                        /\ \A i \in DOMAIN trains :
                               DurationParses(trains[i]) =>
                                   Minutes(fastest) <= Minutes(trains[i])

\* the smallest key and the first position that has a given key
Smallest(keys) == CHOOSE v \in {keys[i] : i \in DOMAIN keys} :
                      \A i \in DOMAIN keys : v <= keys[i]

Largest(keys) == CHOOSE v \in {keys[i] : i \in DOMAIN keys} :
                     \A i \in DOMAIN keys : v >= keys[i]

FirstWith(keys, v) == CHOOSE i \in DOMAIN keys :
                          keys[i] = v /\ \A j \in 1..(i - 1) : keys[j] # v

\* C9: for a non-empty list each of the three trains reported is the first
\* in input order among those that share the best sort key: the smallest
\* parsed duration, the largest number of classes, the smallest halt count.
C9_FirstOccurrenceWins ==
    (Done("get_quick_recommendations") /\ call.trains # <<>>) =>
        LET trains == call.trains
            durations == [i \in DOMAIN trains |-> DurationKey(trains[i])]
            classes == [i \in DOMAIN trains |-> ClassesKey(trains[i])]
            halts == [i \in DOMAIN trains |-> HaltsKey(trains[i])]
        IN  /\ ret[4].kind = "fastest"
            /\ Chosen(ret[4]) = FirstWith(durations, Smallest(durations))
            /\ ret[5].kind = "most_classes"
            /\ Chosen(ret[5]) = FirstWith(classes, Largest(classes))
            /\ ret[6].kind = "least_halts"
            /\ Chosen(ret[6]) = FirstWith(halts, Smallest(halts))

\* the second and third train share the smallest duration, the first is
\* slower: the second is reported
C9_Witness ==
    /\ Done("get_quick_recommendations")
    /\ Len(call.trains) = 3
    /\ DurationKey(call.trains[2]) = DurationKey(call.trains[3])
    /\ DurationKey(call.trains[1]) > DurationKey(call.trains[2])
    /\ ret[4].name = TrainNames[2]

\* the lines of block i: from its title to the blank line that ends it
BlockLines(text, i) ==
    LET first == CHOOSE p \in DOMAIN text : text[p].kind = "title" /\ text[p].seq = i
        last == CHOOSE q \in first..Len(text) :
                    /\ text[q].kind = "blank"
                    /\ \A r \in first..(q - 1) : text[r].kind # "blank"
    IN  SubSeq(text, first, last)

HasLine(lines, kind) == \E p \in DOMAIN lines : lines[p].kind = kind

\* the three optional lines that the code does guard
GuardedLines(lines, train) ==
    /\ HasLine(lines, "run_days") <=> Get(train, "run_days", <<>>) # <<>>
    /\ HasLine(lines, "classes") <=> Get(train, "class_type", <<>>) # <<>>
    /\ HasLine(lines, "halts") <=> Get(train, "halt_stn", 0) # 0

\* C10 as stated: in every block the distance line appears exactly when the
\* record has a distance, the running-days line when run_days is non-empty,
\* the classes line when class_type is non-empty and the halt line when the
\* halt count is present and nonzero.
C10_OptionalLinesOnlyWithValue ==
    (Done("format_train_info") /\ IsSuccessWithTrains(call.train_data)) =>
        LET trains == call.train_data["data"]
        IN  \A i \in 1..Min(Len(trains), 5) :
                LET lines == BlockLines(ret, i)
                IN  /\ HasLine(lines, "distance") <=> "distance" \in DOMAIN trains[i]
                    /\ GuardedLines(lines, trains[i])

\* C10, amended: every block has the distance line, which shows the distance
\* of the record or N/A when the record has none; the running-days line
\* appears exactly when run_days is non-empty, the classes line exactly when
\* class_type is non-empty and the halt line exactly when the halt count is
\* present and nonzero.
C10_DistanceAlwaysOthersWithValue ==
    (Done("format_train_info") /\ IsSuccessWithTrains(call.train_data)) =>
        LET trains == call.train_data["data"]
        IN  \A i \in 1..Min(Len(trains), 5) :
                LET lines == BlockLines(ret, i)
                IN  /\ lines[5].kind = "distance"
                    /\ lines[5].text = IF "distance" \in DOMAIN trains[i]
                                       THEN IntToStr(trains[i]["distance"])
                                       ELSE NA
                    /\ GuardedLines(lines, trains[i])

\* a record without any of the four fields: its block is the five fixed
\* lines, the distance line reading N/A, and the closing blank line
C10_Witness ==
    /\ Done("format_train_info")
    /\ IsSuccessWithTrains(call.train_data)
    /\ DOMAIN call.train_data["data"][1]
           \cap {"distance", "run_days", "class_type", "halt_stn"} = {}
    /\ Len(BlockLines(ret, 1)) = 6
    /\ BlockLines(ret, 1)[5] = [kind |-> "distance", text |-> NA]

====
